---------------------------- MODULE Spec2Model ----------------------------
(***************************************************************************)
(* Model of tools/create_audio_messages.py: Mode.run (the batch loop that  *)
(* turns a track list into one mp3 file per entry) and the backends'       *)
(* text_to_speech.                                                         *)
(*                                                                         *)
(* A Python str is a sequence of one-character strings, a bytes object a   *)
(* sequence of numbers 0..255.  The output directory is a function from    *)
(* the paths of the files in it to their contents.                         *)
(***************************************************************************)
EXTENDS Integers, Sequences, FiniteSets, TLC

\* ------------------------------------------------------------------ bounds

\* Longest input file (in lines) of a run.
MaxLines == 4

\* Longest input file (in lines) of a run checked for termination.
MaxFairLines == 3

\* Longest input file (in lines) handed to the parser alone.
MaxParseLines == 3

\* ------------------------------------------------------------- str helpers

\* Characters str.strip() removes (a line read from the file ends in "\n").
Whitespace == {" ", "\t", "\n"}

RECURSIVE LStrip(_)
LStrip(s) ==
    IF s = <<>> THEN s
    ELSE IF Head(s) \in Whitespace THEN LStrip(Tail(s)) ELSE s

RECURSIVE RStrip(_)
RStrip(s) ==
    IF s = <<>> THEN s
    ELSE IF s[Len(s)] \in Whitespace THEN RStrip(SubSeq(s, 1, Len(s) - 1)) ELSE s

\* str.lstrip() in place of str.strip().
Strip_LeftOnly(s) == LStrip(s)

\* str.strip()
Strip(s) == RStrip(LStrip(s))

\* str.startswith(prefix)
StartsWith(s, prefix) ==
    /\ Len(s) >= Len(prefix)
    /\ SubSeq(s, 1, Len(prefix)) = prefix

\* str.split(sep) for a one-character separator: the list of the parts.
RECURSIVE Split(_, _)
Split(s, sep) ==
    IF \A k \in 1..Len(s) : s[k] # sep THEN <<s>>
    ELSE LET k == CHOOSE j \in 1..Len(s) :
                      /\ s[j] = sep
                      /\ \A m \in 1..(j - 1) : s[m] # sep
         IN  <<SubSeq(s, 1, k - 1)>> \o Split(SubSeq(s, k + 1, Len(s)), sep)

Mp3Suffix == <<".", "m", "p", "3">>

\* os.path.join(outdir, name) for a relative name and an outdir without a
\* trailing separator.
Join(dir, name) == dir \o <<"/">> \o name

\* ------------------------------------------------------- reading the input

\* Lines 61-70 with a line that does not split in two skipped like a
\* comment.
RECURSIVE ReadLines_SkipBad(_, _)
ReadLines_SkipBad(ls, acc) ==
    IF ls = <<>> THEN [ok |-> TRUE, elements |-> acc]
    ELSE LET line  == Strip(Head(ls))
             parts == Split(line, "|")
         IN  IF Len(line) = 0 \/ StartsWith(line, <<"#">>) \/ Len(parts) # 2
             THEN ReadLines_SkipBad(Tail(ls), acc)
             ELSE ReadLines_SkipBad(Tail(ls),
                      Append(acc, <<parts[1] \o Mp3Suffix, parts[2]>>))

\* Lines 61-70 of Mode.run over the lines still to read, with the elements
\* collected so far.  ok is FALSE when the unpacking of line 69 raises
\* ValueError (the split did not give exactly two parts); the exception is
\* not caught anywhere, so the elements collected so far are lost with it.
RECURSIVE ReadLines(_, _)
ReadLines(ls, acc) ==
    IF ls = <<>> THEN [ok |-> TRUE, elements |-> acc]
    ELSE LET line  == Strip(Head(ls))
             parts == Split(line, "|")
         IN  IF Len(line) = 0 THEN ReadLines(Tail(ls), acc)
             ELSE IF StartsWith(line, <<"#">>) THEN ReadLines(Tail(ls), acc)
             ELSE IF Len(parts) # 2 THEN [ok |-> FALSE, elements |-> <<>>]
             ELSE ReadLines(Tail(ls),
                            Append(acc, <<parts[1] \o Mp3Suffix, parts[2]>>))

\* Lines 59-70: the elements of a whole input file.
ParseInput(ls) == ReadLines(ls, <<>>)

\* ------------------------------------------------------------------ base64

B64Alphabet ==
    << "A", "B", "C", "D", "E", "F", "G", "H", "I", "J", "K", "L", "M",
       "N", "O", "P", "Q", "R", "S", "T", "U", "V", "W", "X", "Y", "Z",
       "a", "b", "c", "d", "e", "f", "g", "h", "i", "j", "k", "l", "m",
       "n", "o", "p", "q", "r", "s", "t", "u", "v", "w", "x", "y", "z",
       "0", "1", "2", "3", "4", "5", "6", "7", "8", "9", "+", "/" >>

B64Value(c) == (CHOOSE k \in 1..Len(B64Alphabet) : B64Alphabet[k] = c) - 1

IsB64Char(c) == \E k \in 1..Len(B64Alphabet) : B64Alphabet[k] = c

\* base64.b64decode(s) (validate = False), as binascii.a2b_base64 computes
\* it: characters outside the alphabet are skipped, a quad of characters
\* gives three bytes, padding ends the data, and leftover characters raise
\* binascii.Error (ok = FALSE).
RECURSIVE B64Scan(_, _, _, _, _)
B64Scan(s, quad_pos, leftchar, pads, out) ==
    IF s = <<>> THEN [ok |-> quad_pos = 0, data |-> out]
    ELSE LET c == Head(s)
             v == B64Value(c)
         IN  IF c = "="
             THEN IF quad_pos >= 2 /\ quad_pos + pads + 1 >= 4
                  THEN [ok |-> TRUE, data |-> out]
                  ELSE B64Scan(Tail(s), quad_pos, leftchar,
                               IF quad_pos >= 2 THEN pads + 1 ELSE pads, out)
             ELSE IF ~IsB64Char(c)
             THEN B64Scan(Tail(s), quad_pos, leftchar, pads, out)
             ELSE IF quad_pos = 0
             THEN B64Scan(Tail(s), 1, v, 0, out)
             ELSE IF quad_pos = 1
             THEN B64Scan(Tail(s), 2, v % 16, 0,
                          Append(out, leftchar * 4 + v \div 16))
             ELSE IF quad_pos = 2
             THEN B64Scan(Tail(s), 3, v % 4, 0,
                          Append(out, leftchar * 16 + v \div 4))
             ELSE B64Scan(Tail(s), 0, 0, 0, Append(out, leftchar * 64 + v))

b64decode(s) == B64Scan(s, 0, 0, 0, <<>>)

\* ------------------------------------------------------------ environment

\* Lines an input file of a run is made of: two entries with different
\* names, a comment, a line without the delimiter and one with two.
RunLineSet ==
    { <<"a", "|", "x">>,
      <<"b", "|", "y">>,
      <<"#", "c">>,
      <<"a", "b">>,
      <<"a", "|", "b", "|", "c">> }

\* A file of five entries with five names.
MixedRunFile ==
    << <<"a", "|", "x">>,
       <<"b", "|", "y">>,
       <<"c", "|", "x">>,
       <<"d", "|", "y">>,
       <<"e", "|", "x">> >>

\* Lines an input file handed to the parser alone is made of.
ParseLineSet ==
    { <<"f", "o", "o", "|", "H", "e", "l", "l", "o", " ", "w", "o", "r", "l", "d">>,
      <<"#", " ", "c", "o", "m", "m", "e", "n", "t">>,
      <<>>,
      <<"b", "a", "r", "|", "S", "e", "c", "o", "n", "d">>,
      <<" ", "\t", "\n">>,
      <<" ", "#", "x", "|", "y">>,
      <<" ", "a", "|", " ", "b", " ", "\n">>,
      <<"a", "|", "#", "b", "\n">>,
      <<"|">>,
      <<"a", "b">>,
      <<"a", "|", "b", "|", "c">> }

\* The input of the parsing example: four lines, two of them entries.
ExampleFile ==
    << <<"f", "o", "o", "|", "H", "e", "l", "l", "o", " ", "w", "o", "r", "l", "d">>,
       <<"#", " ", "c", "o", "m", "m", "e", "n", "t">>,
       <<>>,
       <<"b", "a", "r", "|", "S", "e", "c", "o", "n", "d">> >>

\* All sequences of at most n elements of S.
SeqUpTo(S, n) == UNION { [1..k -> S] : k \in 0..n }

\* self._outdir
OutDir == <<"s", "d">>

\* The classes whose run() can be started.
Modes == {"Mode", "GoogleMode", "AWSMode", "SayMode"}

\* Values of --lang: the two of the voice table and one that is not in it.
Languages == {"de", "en", "fr"}

\* GoogleMode.voice_by_lang
voice_by_lang ==
    [ de |-> [languageCode |-> "de-DE", name |-> "de-DE-Wavenet-C"],
      en |-> [languageCode |-> "en-US", name |-> "en-US-Wavenet-D"] ]

\* requests.codes.ok
StatusOk == 200

\* Status codes the endpoint answers with: ok, and two others.
StatusCodes == {StatusOk, 201, 403}

\* Values of the response's audioContent field: the base64 of the bytes
\* 1 2, the base64 of the byte 255, and a string with incorrect padding.
AudioContents ==
    { <<"A", "Q", "I", "=">>,
      <<"/", "w", "=", "=">>,
      <<"A", "Q">> }

\* What r.json() gives: an object with audioContent, or one without.
JsonBodies ==
    { [audioContent |-> a] : a \in AudioContents }
        \cup { [error |-> <<"e">>] }

\* The responses session.post can return; is_json is FALSE for a body
\* r.json() raises on.
Responses ==
    { [status_code |-> c, is_json |-> TRUE, js |-> j] :
          c \in StatusCodes, j \in JsonBodies }
        \cup { [status_code |-> c, is_json |-> FALSE, js |-> [raw |-> <<"<">>]] :
                   c \in StatusCodes }

\* r outside text_to_speech: no response object exists.
NoResponse == [status_code |-> 0, is_json |-> FALSE, js |-> [raw |-> <<>>]]

\* ------------------------------------------------------------------ state

VARIABLES
    input_isfile,   \* isfile(self._input)
    outdir_isdir,   \* isdir(self._outdir)
    lines,          \* the lines of the input file
    mode,           \* the class of self
    language,       \* self._language
    pc,             \* where run() is, or how it ended
    elements,       \* run's list of (name, text)
    i,              \* run's loop index; -1 before the first iteration
    errors,         \* run's error counter
    mp3,            \* run's bytes of the last successful text_to_speech
    r,              \* text_to_speech's response
    fs,             \* the files of the output directory: path -> bytes
    invoked,        \* history: the calls of text_to_speech, (i, total, name, text)
    outcome,        \* history: how each attempted entry ended
    requests,       \* history: the bodies handed to session.post
    exit_status     \* the process's exit status; -1 while it runs

vars == << input_isfile, outdir_isdir, lines, mode, language, pc, elements, i,
           errors, mp3, r, fs, invoked, outcome, requests, exit_status >>

\* The empty directory.
NoFiles == [p \in {} |-> <<>>]

InitRun(files, modes, languages) ==
    /\ input_isfile \in BOOLEAN
    /\ outdir_isdir \in BOOLEAN
    /\ lines \in (IF input_isfile THEN files ELSE {<<>>})
    /\ mode \in modes
    /\ language \in languages
    /\ pc = "check_input"
    /\ elements = <<>>
    /\ i = -1
    /\ errors = 0
    /\ mp3 = <<>>
    /\ r = NoResponse
    /\ fs = NoFiles
    /\ invoked = <<>>
    /\ outcome = <<>>
    /\ requests = <<>>
    /\ exit_status = -1

Init ==
    InitRun(SeqUpTo(RunLineSet, MaxLines) \cup {MixedRunFile}, Modes, Languages)

\* The parser alone, on more kinds of lines.
InitParse ==
    InitRun(SeqUpTo(ParseLineSet, MaxParseLines) \cup {ExampleFile},
            {"GoogleMode"}, {"de"})

\* ------------------------------------------------------- Mode.run, 50-72

\* sys.exit(1), or the interpreter ending on an uncaught exception.
Exit(state, status) ==
    /\ pc' = state
    /\ exit_status' = status

\* Lines 51-53 without the sys.exit(1) of line 53.
CheckInput_NoExit ==
    /\ pc = "check_input"
    /\ pc' = "check_outdir"
    /\ UNCHANGED << input_isfile, outdir_isdir, lines, mode, language, elements,
                    i, errors, mp3, r, fs, invoked, outcome, requests,
                    exit_status >>

\* Lines 51-53.
CheckInput ==
    /\ pc = "check_input"
    /\ IF ~input_isfile
       THEN Exit("FatalInput", 1)
       ELSE pc' = "check_outdir" /\ UNCHANGED exit_status
    /\ UNCHANGED << input_isfile, outdir_isdir, lines, mode, language, elements,
                    i, errors, mp3, r, fs, invoked, outcome, requests >>

\* Lines 55-57.
CheckOutdir ==
    /\ pc = "check_outdir"
    /\ IF ~outdir_isdir
       THEN Exit("FatalOutdir", 1)
       ELSE pc' = "read" /\ UNCHANGED exit_status
    /\ UNCHANGED << input_isfile, outdir_isdir, lines, mode, language, elements,
                    i, errors, mp3, r, fs, invoked, outcome, requests >>

\* Lines 59-73: the whole file is read before the loop starts; the
\* ValueError of line 69 is caught nowhere and ends the process.
ReadInput ==
    /\ pc = "read"
    /\ LET parsed == ParseInput(lines)
       IN  IF parsed.ok
           THEN /\ elements' = parsed.elements
                /\ pc' = "loop"
                /\ UNCHANGED exit_status
           ELSE /\ elements' = <<>>
                /\ Exit("ParseError", 1)
    /\ UNCHANGED << input_isfile, outdir_isdir, lines, mode, language, i,
                    errors, mp3, r, fs, invoked, outcome, requests >>

\* ------------------------------------------------------- Mode.run, 74-95

\* The error threshold of line 75.
Threshold == 3

\* Line 75 with > in place of >=.
TooManyErrors_Above(n) == n > Threshold

\* Line 75 with the threshold one too low.
TooManyErrors_Early(n) == n >= Threshold - 1

\* Line 75.
TooManyErrors(n) == n >= Threshold

\* Line 74: whether enumerate(elements) has an element after index k.
HasNext(k) == k + 1 < Len(elements)

\* Line 74 iterating over the list from its end.
Element_Reversed(k) == elements[Len(elements) - k]

\* Line 79: the (name, text) of index k.
Element(k) == elements[k + 1]

\* Line 74 with the list exhausted: the loop ends, run() returns and the
\* script ends with status 0.  The threshold is not looked at here.
LoopExit ==
    /\ pc = "loop"
    /\ ~HasNext(i)
    /\ Exit("Done", 0)
    /\ UNCHANGED << input_isfile, outdir_isdir, lines, mode, language, elements,
                    i, errors, mp3, r, fs, invoked, outcome, requests >>

\* Lines 74-77 removing the files of the directory before the exit.
Abort_Cleanup ==
    /\ pc = "loop"
    /\ i + 1 < Len(elements)
    /\ errors >= Threshold
    /\ i' = i + 1
    /\ fs' = NoFiles
    /\ pc' = "Aborted"
    /\ exit_status' = 1
    /\ UNCHANGED << input_isfile, outdir_isdir, lines, mode, language, elements,
                    errors, mp3, r, invoked, outcome, requests >>

\* Lines 74-77: the next element is fetched, then the threshold is checked.
Abort ==
    /\ pc = "loop"
    /\ HasNext(i)
    /\ TooManyErrors(errors)
    /\ i' = i + 1
    /\ Exit("Aborted", 1)
    /\ UNCHANGED << input_isfile, outdir_isdir, lines, mode, language, elements,
                    errors, mp3, r, fs, invoked, outcome, requests >>

\* Lines 74-83 with enumerate(elements, 1): the index printed is one more.
Attempt_FromOne ==
    /\ pc = "loop"
    /\ i + 1 < Len(elements)
    /\ errors < Threshold
    /\ i' = i + 1
    /\ invoked' = Append(invoked, [ i     |-> i' + 1,
                                    total |-> Len(elements),
                                    name  |-> elements[i' + 1][1],
                                    text  |-> elements[i' + 1][2] ])
    /\ pc' = "tts"
    /\ UNCHANGED << input_isfile, outdir_isdir, lines, mode, language, elements,
                    errors, mp3, r, fs, outcome, requests, exit_status >>

\* Lines 74-83: the next element is fetched, the threshold allows it, the
\* progress line is printed and text_to_speech is called.
Attempt ==
    /\ pc = "loop"
    /\ HasNext(i)
    /\ ~TooManyErrors(errors)
    /\ i' = i + 1
    /\ invoked' = Append(invoked, [ i     |-> i',
                                    total |-> Len(elements),
                                    name  |-> Element(i')[1],
                                    text  |-> Element(i')[2] ])
    /\ pc' = "tts"
    /\ UNCHANGED << input_isfile, outdir_isdir, lines, mode, language, elements,
                    errors, mp3, r, fs, outcome, requests, exit_status >>

\* Lines 84-87 had the output file been opened before the synthesis: the
\* failed entry leaves an empty file.
HandleSynthError_LeavesFile ==
    /\ errors' = errors + 1
    /\ outcome' = Append(outcome, "synth")
    /\ r' = NoResponse
    /\ pc' = "loop"
    /\ fs' = [q \in DOMAIN fs \cup {OutDir \o <<"/">> \o elements[i + 1][1]} |->
                 IF q \in DOMAIN fs THEN fs[q] ELSE <<>>]
    /\ UNCHANGED << input_isfile, outdir_isdir, lines, mode, language, elements,
                    i, mp3, invoked, exit_status >>

\* Lines 84-87 with the failed entry put back to be tried again.
HandleSynthError_Retry ==
    /\ errors' = errors + 1
    /\ outcome' = Append(outcome, "synth")
    /\ r' = NoResponse
    /\ pc' = "loop"
    /\ i' = i - 1
    /\ UNCHANGED << input_isfile, outdir_isdir, lines, mode, language, elements,
                    mp3, fs, invoked, exit_status >>

\* Lines 84-87: text_to_speech raised; the entry is counted and skipped.
HandleSynthError ==
    /\ errors' = errors + 1
    /\ outcome' = Append(outcome, "synth")
    /\ r' = NoResponse
    /\ pc' = "loop"
    /\ UNCHANGED << input_isfile, outdir_isdir, lines, mode, language, elements,
                    i, mp3, fs, invoked, exit_status >>

\* ------------------------------------------------------- text_to_speech

\* Lines 47-48 raising something line 84 does not catch: the process ends
\* on the uncaught exception.
StubTextToSpeech_Uncaught ==
    /\ pc = "tts"
    /\ mode # "GoogleMode"
    /\ pc' = "Crash"
    /\ exit_status' = 1
    /\ UNCHANGED << input_isfile, outdir_isdir, lines, mode, language, elements,
                    i, errors, mp3, r, fs, invoked, outcome, requests >>

\* Lines 47-48, 186-187, 215-216: NotImplemented() is a call of an object
\* that is not callable; it raises TypeError, which line 84 catches.
StubTextToSpeech ==
    /\ pc = "tts"
    /\ mode # "GoogleMode"
    /\ HandleSynthError
    /\ UNCHANGED requests

\* Line 142 as voice_by_lang.get(lang, voice_by_lang["de"]).
VoiceLookup_Default(lang) ==
    IF lang \in DOMAIN voice_by_lang
    THEN [found |-> TRUE, voice |-> voice_by_lang[lang]]
    ELSE [found |-> TRUE, voice |-> voice_by_lang["de"]]

\* Line 142, GoogleMode.voice_by_lang[lang]: the voice of a language;
\* found is FALSE when the lookup raises KeyError.
VoiceLookup(lang) ==
    IF lang \in DOMAIN voice_by_lang
    THEN [found |-> TRUE, voice |-> voice_by_lang[lang]]
    ELSE [found |-> FALSE, voice |-> [languageCode |-> "", name |-> ""]]

\* Lines 135-144: the body of the request.
RequestData(text, lang) ==
    [ audioConfig |-> [ audioEncoding    |-> "MP3",
                        speakingRate     |-> 10,
                        pitch            |-> 20,
                        sampleRateHertz  |-> 44100,
                        effectsProfileId |-> <<"small-bluetooth-speaker-class-device">> ],
      voice |-> VoiceLookup(lang).voice,
      input |-> [text |-> text] ]

\* Lines 133-144 with a language that has no voice: KeyError, before
\* anything is posted.
GoogleNoVoice ==
    /\ pc = "tts"
    /\ mode = "GoogleMode"
    /\ ~VoiceLookup(language).found
    /\ HandleSynthError
    /\ UNCHANGED requests

\* Lines 133-147: the request is posted and answered.
GooglePost ==
    /\ pc = "tts"
    /\ mode = "GoogleMode"
    /\ VoiceLookup(language).found
    /\ requests' = Append(requests, RequestData(Element(i)[2], language))
    /\ \E resp \in Responses : r' = resp
    /\ pc' = "response"
    /\ UNCHANGED << input_isfile, outdir_isdir, lines, mode, language, elements,
                    i, errors, mp3, fs, invoked, outcome, exit_status >>

\* Line 147 raising (no connection, a timeout ...).
GooglePostRaises ==
    /\ pc = "tts"
    /\ mode = "GoogleMode"
    /\ VoiceLookup(language).found
    /\ requests' = Append(requests, RequestData(Element(i)[2], language))
    /\ HandleSynthError

\* Line 148 left out: the status is not looked at.
StatusFailed_Never(resp) == FALSE

\* Line 148.
StatusFailed(resp) == resp.status_code # StatusOk

\* Line 155.
AudioMissing(js) == ~("audioContent" \in DOMAIN js)

\* Lines 148-152.
GoogleBadStatus ==
    /\ pc = "response"
    /\ StatusFailed(r)
    /\ HandleSynthError
    /\ UNCHANGED requests

\* Line 154 raising: the body is not JSON.
GoogleNotJson ==
    /\ pc = "response"
    /\ ~StatusFailed(r)
    /\ ~r.is_json
    /\ HandleSynthError
    /\ UNCHANGED requests

\* Lines 155-156.
GoogleNoAudio ==
    /\ pc = "response"
    /\ ~StatusFailed(r)
    /\ r.is_json
    /\ AudioMissing(r.js)
    /\ HandleSynthError
    /\ UNCHANGED requests

\* Line 158 raising: binascii.Error.
GoogleBadBase64 ==
    /\ pc = "response"
    /\ ~StatusFailed(r)
    /\ r.is_json
    /\ ~AudioMissing(r.js)
    /\ ~b64decode(r.js.audioContent).ok
    /\ HandleSynthError
    /\ UNCHANGED requests

\* Lines 158 and 83: the decoded bytes are returned and bound to mp3.
GoogleReturn ==
    /\ pc = "response"
    /\ ~StatusFailed(r)
    /\ r.is_json
    /\ ~AudioMissing(r.js)
    /\ b64decode(r.js.audioContent).ok
    /\ mp3' = b64decode(r.js.audioContent).data
    /\ r' = NoResponse
    /\ pc' = "write"
    /\ UNCHANGED << input_isfile, outdir_isdir, lines, mode, language, elements,
                    i, errors, fs, invoked, outcome, requests, exit_status >>

\* ------------------------------------------------------- Mode.run, 89-95

\* Line 89.
Target(name) == Join(OutDir, name)

\* open(target, "xb"): a file that exists is left as it is.
Put_KeepExisting(files, p, data) ==
    [q \in DOMAIN files \cup {p} |-> IF q \in DOMAIN files THEN files[q] ELSE data]

\* The directory after the file at path p was created or truncated and got
\* data as its content.
Put(files, p, data) ==
    [q \in DOMAIN files \cup {p} |-> IF q = p THEN data ELSE files[q]]

\* Line 92 losing the last byte.
Written_Truncated(data) == SubSeq(data, 1, Len(data) - 1)

\* Line 92: what out_file.write(mp3) puts into the file.
Written(data) == data

\* Lines 89-92: the file is opened for writing and the bytes are written.
WriteFile ==
    /\ pc = "write"
    /\ fs' = Put(fs, Target(Element(i)[1]), Written(mp3))
    /\ outcome' = Append(outcome, "ok")
    /\ pc' = "loop"
    /\ UNCHANGED << input_isfile, outdir_isdir, lines, mode, language, elements,
                    i, errors, mp3, r, invoked, requests, exit_status >>

\* Lines 93-95 with line 95 adding 2.
CountIOError_Twice(n) == n + 2

\* Lines 93-95 without line 95.
CountIOError_Ignored(n) == n

\* Lines 93-95: the error counter after an IOError.
CountIOError(n) == n + 1

\* Lines 91, 93-95: open() raises; no file is created or changed.
WriteOpenFails ==
    /\ pc = "write"
    /\ errors' = CountIOError(errors)
    /\ outcome' = Append(outcome, "open")
    /\ pc' = "loop"
    /\ UNCHANGED << input_isfile, outdir_isdir, lines, mode, language, elements,
                    i, mp3, r, fs, invoked, requests, exit_status >>

\* Lines 91-95: open() created or truncated the file and the write (or the
\* flush on closing) raises; any amount of the bytes has reached the file.
WriteFails ==
    /\ pc = "write"
    /\ \E k \in 0..Len(mp3) :
           fs' = Put(fs, Target(Element(i)[1]), SubSeq(mp3, 1, k))
    /\ errors' = CountIOError(errors)
    /\ outcome' = Append(outcome, "write")
    /\ pc' = "loop"
    /\ UNCHANGED << input_isfile, outdir_isdir, lines, mode, language, elements,
                    i, mp3, r, invoked, requests, exit_status >>

\* ------------------------------------------------------- specification

Next ==
    \/ CheckInput
    \/ CheckOutdir
    \/ ReadInput
    \/ LoopExit
    \/ Abort
    \/ Attempt
    \/ StubTextToSpeech
    \/ GoogleNoVoice
    \/ GooglePost
    \/ GooglePostRaises
    \/ GoogleBadStatus
    \/ GoogleNotJson
    \/ GoogleNoAudio
    \/ GoogleBadBase64
    \/ GoogleReturn
    \/ WriteFile
    \/ WriteOpenFails
    \/ WriteFails

Spec == Init /\ [][Next]_vars

\* The run as one sequential thread in which every call returns or raises:
\* a step that can be taken is taken.
FairInit ==
    InitRun(SeqUpTo(RunLineSet, MaxFairLines) \cup {MixedRunFile},
            Modes, Languages)

FairSpec == FairInit /\ [][Next]_vars /\ WF_vars(Next)

\* Lines 50-72 alone.
NextParse ==
    \/ CheckInput
    \/ CheckOutdir
    \/ ReadInput

SpecParse == InitParse /\ [][NextParse]_vars

\* ------------------------------------------------------------------ claims

Last(q) == q[Len(q)]

\* The attempted entries (as positions of outcome) that ended in a failure.
Failed == { k \in 1..Len(outcome) : outcome[k] # "ok" }

\* The run has left the loop.
LoopEnded == pc \in {"Done", "Aborted"}

\* C1: whenever the error count has reached the threshold 3, the run ends
\* Aborted with a non-zero exit status; a run ends Done with exit status 0
\* only if the error count never reached 3, also when the third failure
\* happens on the last entry.  (errors never decreases, so "never reached 3"
\* is errors < 3 at the end.)
C1_DoneOnlyBelowThreshold ==
    /\ pc = "Done" => errors < Threshold
    /\ exit_status = 0 => errors < Threshold
    /\ LoopEnded /\ errors >= Threshold => pc = "Aborted" /\ exit_status # 0

\* C2: text_to_speech is never called, and no entry is in work, while
\* errors >= 3; errors never exceeds 3; and when every attempt of a list of
\* more than 3 entries failed in text_to_speech, exactly 3 entries were
\* attempted and the run was aborted.
C2_NoAttemptAtThreshold ==
    /\ errors <= Threshold
    /\ pc \in {"tts", "response", "write"} => errors < Threshold
    /\ ( /\ LoopEnded
         /\ Len(elements) > Threshold
         /\ \A k \in 1..Len(outcome) : outcome[k] = "synth" )
       => /\ pc = "Aborted"
          /\ Len(invoked) = Threshold
          /\ \A k \in 1..Len(invoked) : invoked[k].i = k - 1

C2_Witness ==
    /\ pc = "Aborted"
    /\ Len(elements) = 4
    /\ outcome = <<"synth", "synth", "synth">>
    /\ Len(invoked) = 3

\* The paths of the output files of the entries at the positions S.
TargetsOf(S) == { Target(elements[k][1]) : k \in S }

C4_AttemptsInInputOrder ==
    /\ Len(invoked) <= Len(elements)
    /\ \A k \in 1..Len(invoked) :
           /\ invoked[k].i = k - 1
           /\ invoked[k].name = elements[k][1]
           /\ invoked[k].text = elements[k][2]

C4_Witness ==
    /\ Len(invoked) = 3
    /\ elements[1] # elements[2]
    /\ elements[2] # elements[3]
    /\ outcome = <<"synth", "ok">>

\* C5: no entry is handed to text_to_speech twice, and a run that ends Done
\* has handed each parsed entry to it exactly once.
C5_NoRetries ==
    /\ \A j, k \in 1..Len(invoked) : j # k => invoked[j].i # invoked[k].i
    /\ pc = "Done" =>
           \A n \in 0..(Len(elements) - 1) :
               Cardinality({ k \in 1..Len(invoked) : invoked[k].i = n }) = 1

C5_Witness ==
    /\ pc = "Done"
    /\ Len(elements) = 3
    /\ outcome = <<"synth", "write", "ok">>
    /\ Len(invoked) = 3

\* C6: when the synthesis of an entry returned bytes (they are bound to
\* mp3) and the write succeeded, the directory holds <outdir>/<name>.mp3
\* with exactly those bytes, and the entry is not counted as an error.
C6_RoundTrip ==
    ( /\ pc \in {"loop", "Done"}
      /\ Len(outcome) > 0
      /\ Last(outcome) = "ok" )
    => LET path == OutDir \o <<"/">> \o Last(invoked).name
       IN  /\ path \in DOMAIN fs
           /\ fs[path] = mp3
           /\ Last(invoked).name = elements[Len(outcome)][1]
           /\ errors = Cardinality(Failed)

C6_Witness ==
    /\ pc = "loop"
    /\ outcome = <<"open", "ok">>
    /\ mp3 = <<1, 2>>
    /\ fs = [q \in {<<"s", "d", "/", "b", ".", "m", "p", "3">>} |-> <<1, 2>>]
    /\ errors = 1

\* C7: an entry whose synthesis fails leaves the output directory as it
\* was: the failing step changes no file, skips the write and goes back to
\* the loop head (the threshold check), and no step from the loop head to
\* the end of text_to_speech changes a file.
C7_SynthFailureKeepsFiles ==
    [][ /\ ( /\ Len(outcome') > Len(outcome)
             /\ Last(outcome') = "synth" )
           => /\ fs' = fs
              /\ pc' = "loop"
              /\ errors' = errors + 1
        /\ pc \in {"loop", "tts", "response"} => fs' = fs ]_vars

C7_Witness ==
    /\ pc = "loop"
    /\ outcome = <<"ok", "synth">>
    /\ elements[1][1] # elements[2][1]
    /\ DOMAIN fs = { Target(elements[1][1]) }

\* C8: an IOError of the write counts like a failed synthesis: errors is
\* the number of failed entries of either kind, a failed write adds one and
\* goes back to the loop head, and at the loop head with an entry left the
\* run aborts exactly if errors >= 3, whatever the failures were.
C8_WriteFailureCounts ==
    [][ /\ errors' = Cardinality(Failed')
        /\ ( /\ Len(outcome') > Len(outcome)
             /\ Last(outcome') \in {"open", "write"} )
           => /\ errors' = errors + 1
              /\ pc' = "loop"
        /\ ( /\ pc = "loop"
             /\ i + 1 < Len(elements) )
           => IF errors >= Threshold THEN pc' = "Aborted" ELSE pc' = "tts" ]_vars

C8_Witness ==
    /\ pc = "Aborted"
    /\ Len(elements) = 4
    /\ outcome = <<"open", "synth", "write">>
    /\ errors = 3

\* A line with nothing but whitespace.
Blank(line) == \A j \in 1..Len(line) : line[j] \in {" ", "\t", "\n"}

\* A line without its leading and trailing whitespace.
Trimmed(line) ==
    LET first == CHOOSE j \in 1..Len(line) :
                     /\ line[j] \notin {" ", "\t", "\n"}
                     /\ \A m \in 1..(j - 1) : line[m] \in {" ", "\t", "\n"}
        last  == CHOOSE j \in 1..Len(line) :
                     /\ line[j] \notin {" ", "\t", "\n"}
                     /\ \A m \in (j + 1)..Len(line) : line[m] \in {" ", "\t", "\n"}
    IN  SubSeq(line, first, last)

\* The positions of the lines that are neither blank nor comments.
EntryLines ==
    { k \in 1..Len(lines) : ~Blank(lines[k]) /\ Trimmed(lines[k])[1] # "#" }

Delimiters(line) == Cardinality({ j \in 1..Len(line) : line[j] = "|" })

ExampleElements ==
    << << <<"f", "o", "o", ".", "m", "p", "3">>,
          <<"H", "e", "l", "l", "o", " ", "w", "o", "r", "l", "d">> >>,
       << <<"b", "a", "r", ".", "m", "p", "3">>,
          <<"S", "e", "c", "o", "n", "d">> >> >>

\* C9: reading the input gives, in the order of the lines, one element
\* (name + ".mp3", text) for each line that is neither blank nor a comment,
\* where the trimmed line is name|text; blank and comment lines give
\* nothing, nothing is dropped or reordered; the example file gives its
\* two elements.  (The reading ends this way exactly when each such line
\* has one delimiter; otherwise line 69 raises.)
C9_ParsedElements ==
    /\ pc = "loop" =>
           /\ Len(elements) = Cardinality(EntryLines)
           /\ \E f \in [1..Len(elements) -> EntryLines] :
                  /\ \A j, k \in 1..Len(elements) : j < k => f[j] < f[k]
                  /\ \A k \in 1..Len(elements) :
                         LET t == Trimmed(lines[f[k]])
                         IN  \E n \in 0..(Len(t) - 1) :
                                 /\ elements[k][1] = SubSeq(t, 1, n) \o <<".", "m", "p", "3">>
                                 /\ t[n + 1] = "|"
                                 /\ elements[k][2] = SubSeq(t, n + 2, Len(t))
           /\ lines = ExampleFile => elements = ExampleElements
    /\ pc = "ParseError" => \E k \in EntryLines : Delimiters(lines[k]) # 1

C9_Witness ==
    /\ pc = "loop"
    /\ lines = ExampleFile
    /\ elements = ExampleElements

\* C10: GoogleMode with a language that is neither "de" nor "en": every
\* call of text_to_speech fails, nothing is posted, no file is written,
\* each call is one counted error; and whatever is posted carries the voice
\* of the language given, never another one.
C10_UnmappedLanguageFails ==
    /\ ( /\ mode = "GoogleMode"
         /\ language \notin {"de", "en"} )
       => /\ requests = <<>>
          /\ r = NoResponse
          /\ pc \notin {"response", "write"}
          /\ DOMAIN fs = {}
          /\ \A k \in 1..Len(outcome) : outcome[k] = "synth"
          /\ errors = Len(outcome)
          /\ Len(invoked) = Len(outcome) + (IF pc = "tts" THEN 1 ELSE 0)
    /\ \A k \in 1..Len(requests) :
           /\ language \in {"de", "en"}
           /\ requests[k].voice = voice_by_lang[language]

C10_Witness ==
    /\ mode = "GoogleMode"
    /\ language = "fr"
    /\ pc = "Aborted"
    /\ errors = 3
    /\ requests = <<>>
    /\ Len(invoked) = 3

\* C11: with a class that does not implement text_to_speech (Mode,
\* AWSMode, SayMode) every call fails and is handled by the loop as one
\* counted error of its entry, the run going on to the loop head; so no
\* file is ever written, nothing is posted, and at most 3 entries are
\* attempted.
C11_StubBackendsAlwaysFail ==
    mode \in {"Mode", "AWSMode", "SayMode"}
    => /\ pc \in {"check_input", "check_outdir", "read", "loop", "tts",
                  "FatalInput", "FatalOutdir", "ParseError", "Done", "Aborted"}
       /\ \A k \in 1..Len(outcome) : outcome[k] = "synth"
       /\ Len(outcome) = Len(invoked) - (IF pc = "tts" THEN 1 ELSE 0)
       /\ errors = Len(outcome)
       /\ Len(invoked) <= 3
       /\ DOMAIN fs = {}
       /\ requests = <<>>

C11_Witness ==
    /\ mode = "AWSMode"
    /\ language = "de"
    /\ pc = "Aborted"
    /\ Len(elements) = 4
    /\ Len(invoked) = 3
    /\ errors = 3
    /\ DOMAIN fs = {}

\* C12: when the input file or the output directory does not exist the run
\* ends with a non-zero exit status without reading a line, calling
\* text_to_speech or writing a file; the input file is checked first, so
\* with both missing it is the input file that ends the run.
C12_FatalBeforeAnyWork ==
    /\ (~input_isfile \/ ~outdir_isdir)
       => /\ pc \in {"check_input", "check_outdir", "FatalInput", "FatalOutdir"}
          /\ elements = <<>>
          /\ invoked = <<>>
          /\ requests = <<>>
          /\ fs = NoFiles
          /\ errors = 0
          /\ exit_status # 0
          /\ pc \in {"FatalInput", "FatalOutdir"} => exit_status = 1
    /\ ~input_isfile => pc \in {"check_input", "FatalInput"}
    /\ pc = "FatalInput" => ~input_isfile
    /\ pc = "FatalOutdir" => input_isfile /\ ~outdir_isdir

C12_Witness ==
    /\ pc = "FatalOutdir"
    /\ input_isfile
    /\ Len(lines) = 2
    /\ elements = <<>>
    /\ exit_status = 1

\* The attempted entries (as positions of outcome) that were written.
Succeeded == { k \in 1..Len(outcome) : outcome[k] = "ok" }

\* C13: errors starts at 0 and never decreases; the end of an attempted
\* entry adds exactly 1 when the entry failed (in synthesis or in the
\* write, one outcome per entry) and nothing when it succeeded, and no
\* other step changes it; so between entries errors plus the number of
\* entries written is the number of entries attempted.
C13_ErrorCounter ==
    /\ errors = 0
    /\ [](pc \in {"loop", "Done", "Aborted"}
             => errors + Cardinality(Succeeded) = Len(invoked))
    /\ [][ /\ errors' >= errors
           /\ Len(outcome') \in {Len(outcome), Len(outcome) + 1}
           /\ IF Len(outcome') > Len(outcome)
              THEN errors' = errors + (IF Last(outcome') = "ok" THEN 0 ELSE 1)
              ELSE errors' = errors ]_vars

C13_Witness ==
    /\ pc = "loop"
    /\ outcome = <<"synth", "ok", "write">>
    /\ errors = 2
    /\ Len(invoked) = 3

\* C14: the index printed for the k-th attempted entry is k - 1 (0 for the
\* first, one more for each attempt, failed or not), which is the number
\* of entries attempted before it; the total printed with it is the number
\* of parsed entries, the same for every attempt of the run.
C14_IndexAndTotal ==
    /\ \A k \in 1..Len(invoked) :
           /\ invoked[k].i = k - 1
           /\ invoked[k].total = Len(elements)
           /\ invoked[k].total = Cardinality(EntryLines)
    /\ pc \in {"tts", "response", "write"}
           => /\ Last(invoked).i = Len(outcome)
              /\ Last(invoked).i = i
    /\ pc \in {"loop", "Done"} => i = Len(outcome) - 1

C14_Witness ==
    /\ pc = "write"
    /\ outcome = <<"synth", "ok">>
    /\ Last(invoked).i = 2
    /\ Last(invoked).total = 3
    /\ Len(lines) = 4

\* The base64 text of a bytes object (what the service encodes).
RECURSIVE B64Encode(_)
B64Encode(b) ==
    IF Len(b) = 0 THEN <<>>
    ELSE IF Len(b) = 1
    THEN << B64Alphabet[(b[1] \div 4) + 1],
            B64Alphabet[(b[1] % 4) * 16 + 1], "=", "=" >>
    ELSE IF Len(b) = 2
    THEN << B64Alphabet[(b[1] \div 4) + 1],
            B64Alphabet[(b[1] % 4) * 16 + (b[2] \div 16) + 1],
            B64Alphabet[(b[2] % 16) * 4 + 1], "=" >>
    ELSE << B64Alphabet[(b[1] \div 4) + 1],
            B64Alphabet[(b[1] % 4) * 16 + (b[2] \div 16) + 1],
            B64Alphabet[(b[2] % 16) * 4 + (b[3] \div 64) + 1],
            B64Alphabet[(b[3] % 64) + 1] >>
         \o B64Encode(SubSeq(b, 4, Len(b)))

\* C15: GoogleMode.text_to_speech hands bytes to the loop (the step to the
\* write) only for a response with status 200 whose JSON has audioContent,
\* and the bytes are those audioContent is the base64 of; a response with
\* another status, and a response without audioContent whatever its
\* status, end the call as a failure: no bytes are bound, no file changes,
\* one error is counted.
C15_ResponseToBytes ==
    [][ pc = "response" =>
          /\ pc' \in {"write", "loop"}
          /\ pc' = "write" =>
                 /\ r.status_code = 200
                 /\ r.is_json
                 /\ "audioContent" \in DOMAIN r.js
                 /\ B64Encode(mp3') = r.js.audioContent
                 /\ \A k \in 1..Len(mp3') : mp3'[k] \in 0..255
                 /\ errors' = errors
          /\ (r.status_code # 200 \/ "audioContent" \notin DOMAIN r.js) =>
                 /\ pc' = "loop"
                 /\ mp3' = mp3
                 /\ fs' = fs
                 /\ errors' = errors + 1
                 /\ Last(outcome') = "synth" ]_vars

C15_Witness ==
    /\ pc = "write"
    /\ mp3 = <<255>>
    /\ Len(requests) = 2
    /\ outcome = <<"synth">>

\* The input has a line, neither blank nor a comment, without exactly one
\* delimiter.
Malformed == \E k \in EntryLines : Delimiters(lines[k]) # 1

\* C16: when the input has a non-blank, non-comment line with no delimiter
\* or with more than one, wherever it is, the run gets no further than
\* reading the input: it ends there on the exception with a non-zero
\* status, text_to_speech is never called, nothing is posted, no file is
\* written and errors stays 0.
C16_MalformedLineEndsRun ==
    Malformed
    => /\ pc \in {"check_input", "check_outdir", "read", "FatalOutdir",
                  "ParseError"}
       /\ pc = "ParseError" => exit_status = 1
       /\ exit_status # 0
       /\ elements = <<>>
       /\ invoked = <<>>
       /\ requests = <<>>
       /\ fs = NoFiles
       /\ errors = 0

C16_Witness ==
    /\ pc = "ParseError"
    /\ Len(lines) = 4
    /\ EntryLines = {1, 2, 3, 4}
    /\ \A k \in 1..3 : Delimiters(lines[k]) = 1
    /\ Delimiters(lines[4]) = 2
    /\ invoked = <<>>
    /\ errors = 0

\* C17: the step to Aborted changes no file, and nothing changes one
\* afterwards: the file of every entry written before is in the directory
\* of the aborted run, with the content it had when the run was aborted.
C17_AbortKeepsFiles ==
    /\ [](pc = "Aborted" => TargetsOf(Succeeded) \subseteq DOMAIN fs)
    /\ [][ (pc' = "Aborted" \/ pc = "Aborted") => fs' = fs ]_vars

C17_Witness ==
    /\ pc = "Aborted"
    /\ lines = MixedRunFile
    /\ outcome = <<"ok", "synth", "synth", "synth">>
    /\ fs = [q \in {<<"s", "d", "/", "a", ".", "m", "p", "3">>} |-> <<1, 2>>]

\* C18: once the entry list is there, the run reaches Done or Aborted, and
\* stays in the one it reached; text_to_speech is called at most once per
\* entry of the list, so at most N times; and the loop index never goes
\* back.
C18_Termination ==
    /\ [](Len(invoked) <= Len(elements))
    /\ [][ /\ i' >= i
           /\ Len(invoked') >= Len(invoked)
           /\ pc \in {"Done", "Aborted"} => pc' = pc ]_vars
    /\ (pc = "loop") ~> (pc \in {"Done", "Aborted"})

C18_Witness ==
    /\ pc = "Aborted"
    /\ lines = MixedRunFile
    /\ outcome = <<"write", "ok", "open", "synth">>
    /\ Len(invoked) = 4

\* The entry just written has the name of an entry written before it.
DuplicateWritten ==
    /\ pc \in {"loop", "Done"}
    /\ Len(outcome) >= 2
    /\ Last(outcome) = "ok"
    /\ \E j \in 1..(Len(outcome) - 1) :
           /\ outcome[j] = "ok"
           /\ elements[j][1] = elements[Len(outcome)][1]

=============================================================================
